---------------------------- MODULE Spec2Model ----------------------------
(***************************************************************************)
(* Model of the LP50XX driver (src/src/LP50XX.cpp): a register-level       *)
(* driver for the LP5009/LP5012 LED driver chips.  The driver keeps three  *)
(* mutable fields (_i2c_address, _enable_pin, _led_configuration) and      *)
(* turns every public call into a fixed sequence of bus and pin calls.     *)
(* The bus primitives of I2C_coms.h are not part of the source; they are   *)
(* modelled as a loopback register store keyed by bus address.             *)
(***************************************************************************)
EXTENDS Integers, Sequences, FiniteSets, TLC

VARIABLES
    i2c_address,        \* LP50XX::_i2c_address
    enable_pin,         \* LP50XX::_enable_pin
    led_configuration,  \* LP50XX::_led_configuration
    bus,                \* register store behind the bus: <<address, register>> -> byte
    call,               \* the last public call: its name, arguments, bus outcome
    trace,              \* the bus / pin / delay calls made by the last public call
    ret,                \* what the last call returned: <<>> for void
    prev,               \* the public call before the last one
    budget,             \* public calls the behaviour may still make
    rmw                 \* the two concurrent read-modify-write setters (SpecRace)

vars == <<i2c_address, enable_pin, led_configuration, bus, call, prev, trace, ret, budget, rmw>>

drv == <<i2c_address, enable_pin, led_configuration>>

(***************************************************************************)
(* Program constants (LP50XX.h).                                           *)
(***************************************************************************)
DEFAULT_ADDRESS   == 20
BROADCAST_ADDRESS == 12
NO_ENABLE_PIN     == 255

RGB == 0
GRB == 1
BGR == 2
RBG == 3
GBR == 4
BRG == 5

Normal    == 0
Broadcast == 1

AUTO_INC_ON == 8

DEVICE_CONFIG0  == 0
DEVICE_CONFIG1  == 1
LED_CONFIG0     == 2
BANK_BRIGHTNESS == 3
BANK_A_COLOR    == 4
BANK_B_COLOR    == 5
BANK_C_COLOR    == 6
LED0_BRIGHTNESS == 7
OUT0_COLOR      == 15
RESET_REGISTERS == 39

HIGH   == 1
LOW    == 0
OUTPUT == 1

i2c_address_broadcast == BROADCAST_ADDRESS

(***************************************************************************)
(* Bounds of the model.                                                    *)
(***************************************************************************)
MaxCalls  == 2      \* public calls per behaviour of SpecCalls
MaxLed    == 1      \* largest led index passed to SetLEDBrightness / SetLEDColor
MaxOutput == 1      \* largest output index passed to SetOutputColor

Bytes          == {21, 42}
ConfigValues   == {0, 40, 55}
ColorTriples   == {<<16, 32, 48>>, <<48, 16, 32>>, <<255, 0, 255>>, <<7, 7, 7>>}
ByteRange      == 0 .. 255
AddressValues  == {BROADCAST_ADDRESS, DEFAULT_ADDRESS}
\* what the storage of the object can hold where no member initialiser writes
Uninitialised  == ByteRange
PinValues      == {NO_ENABLE_PIN, 5}
Configurations == {RGB, GRB, BGR, RBG, GBR, BRG}
\* Normal, Broadcast and one value no enumerator names
AddressTypes   == {Normal, Broadcast, Broadcast + 1}
Values         == {170}
Colors         == {<<16, 32, 48>>}
Registers      == {DEVICE_CONFIG1, BANK_A_COLOR}

(***************************************************************************)
(* 8-bit arithmetic, as the C++ operators on uint8_t compute it.           *)
(***************************************************************************)
RECURSIVE Pow2(_)
Pow2(n) == IF n = 0 THEN 1 ELSE 2 * Pow2(n - 1)

Shl(x, n) == x * Pow2(n)
Shr(x, n) == x \div Pow2(n)

RECURSIVE BitAndN(_, _, _)
BitAndN(a, b, n) ==
    IF n = 0 THEN 0
    ELSE (IF a % 2 = 1 /\ b % 2 = 1 THEN 1 ELSE 0) + 2 * BitAndN(a \div 2, b \div 2, n - 1)

RECURSIVE BitOrN(_, _, _)
BitOrN(a, b, n) ==
    IF n = 0 THEN 0
    ELSE (IF a % 2 = 1 \/ b % 2 = 1 THEN 1 ELSE 0) + 2 * BitOrN(a \div 2, b \div 2, n - 1)

BitAnd(a, b) == BitAndN(a, b, 8)
BitOr(a, b)  == BitOrN(a, b, 8)
\* the low eight bits of ~x, which is all a uint8_t keeps of (buff & ~x)
BitNot(x)    == 255 - x


(***************************************************************************)
(* The bus transport (I2C_coms.h), which the source only calls.  Modelled  *)
(* from its contract: a faithful loopback store in which a write to        *)
(* (address, register) is what a later read of (address, register)         *)
(* returns, a never-written register reads 0, and a burst advances the     *)
(* register only while the addressed device has auto-increment enabled.    *)
(***************************************************************************)
i2c_read_byte(b, addr, reg) ==
    IF <<addr, reg>> \in DOMAIN b THEN b[<<addr, reg>>] ELSE 0

i2c_write_byte(b, addr, reg, val) ==
    [c \in DOMAIN b \cup {<<addr, reg>>} |-> IF c = <<addr, reg>> THEN val ELSE b[c]]

RECURSIVE i2c_write_multi(_, _, _, _)
i2c_write_multi(b, addr, reg, data) ==
    IF data = <<>> THEN b
    ELSE LET autoInc == Shr(i2c_read_byte(b, addr, DEVICE_CONFIG1), 3) % 2 = 1
             next    == IF autoInc THEN reg + 1 ELSE reg
         IN  i2c_write_multi(i2c_write_byte(b, addr, reg, Head(data)), addr, next, Tail(data))

(***************************************************************************)
(* The calls a public operation makes on its collaborators, as recorded in *)
(* trace.                                                                  *)
(***************************************************************************)
Ev(name, addr, reg, data) == [ev |-> name, addr |-> addr, reg |-> reg, data |-> data]

I2cInit                    == Ev("i2c_init", 0, 0, <<>>)
PinMode(pin)               == Ev("pinMode", pin, OUTPUT, <<>>)
DigitalWrite(pin, level)   == Ev("digitalWrite", pin, level, <<>>)
DelayMicroseconds(us)      == Ev("delayMicroseconds", 0, us, <<>>)
Delay(ms)                  == Ev("delay", 0, ms, <<>>)
I2cWrite(addr, reg, val)   == Ev("i2c_write_byte", addr, reg, <<val>>)
I2cRead(addr, reg, val)    == Ev("i2c_read_byte", addr, reg, <<val>>)
I2cMulti(addr, reg, data)  == Ev("i2c_write_multi", addr, reg, data)

NoCall == [op |-> "none", args |-> <<>>, busOk |-> TRUE]

\* the behaviour may make another public call
CanCall == budget > 0

\* bookkeeping of one public call: what was called, and what it returned
Called(op, args, ok, r) ==
    /\ CanCall
    /\ budget' = budget - 1
    /\ call' = [op |-> op, args |-> args, busOk |-> ok]
    /\ prev' = call
    /\ ret' = r
    /\ UNCHANGED rmw

(***************************************************************************)
(* getAddress: the bus address an addressType selects.                     *)
(***************************************************************************)
\* getAddress with the default case falling to the broadcast address
getAddress_DefaultBroadcast(addressType) ==
    IF addressType = Normal THEN i2c_address ELSE i2c_address_broadcast

getAddress(addressType) ==
    IF addressType = Broadcast THEN i2c_address_broadcast ELSE i2c_address

(***************************************************************************)
(* Begin, Reset, ResetRegisters.                                           *)
(***************************************************************************)
\* Begin returning the outcome of its write
BeginReturn_Propagate(ok) == IF ok THEN 1 ELSE 0

BeginReturn(ok) == 1

\* Begin writing before the new address is stored
BeginTrace_OldAddress(i2cAddress) ==
    <<I2cInit>>
    \o (IF enable_pin # NO_ENABLE_PIN THEN <<DigitalWrite(enable_pin, HIGH)>> ELSE <<>>)
    \o <<DelayMicroseconds(500), I2cWrite(i2c_address, DEVICE_CONFIG0, Shl(1, 6))>>

BeginTrace(i2cAddress) ==
    <<I2cInit>>
    \o (IF enable_pin # NO_ENABLE_PIN THEN <<DigitalWrite(enable_pin, HIGH)>> ELSE <<>>)
    \o <<DelayMicroseconds(500), I2cWrite(i2cAddress, DEVICE_CONFIG0, Shl(1, 6))>>

\* ok: whether the bus acknowledged the write
Begin(i2cAddress, ok) ==
    /\ Called("Begin", <<i2cAddress>>, ok, <<BeginReturn(ok)>>)
    /\ i2c_address' = i2cAddress
    /\ trace' = BeginTrace(i2cAddress)
    /\ bus' = IF ok THEN i2c_write_byte(bus, i2cAddress, DEVICE_CONFIG0, Shl(1, 6)) ELSE bus
    /\ UNCHANGED <<enable_pin, led_configuration>>

\* Reset enabling the chip before it resets the registers
ResetTrace_EnableFirst ==
    (IF enable_pin # NO_ENABLE_PIN
     THEN <<DigitalWrite(enable_pin, LOW), Delay(10),
            DigitalWrite(enable_pin, HIGH), DelayMicroseconds(500)>>
     ELSE <<>>)
    \o <<I2cWrite(i2c_address, DEVICE_CONFIG0, Shl(1, 6)),
         I2cWrite(getAddress(Normal), RESET_REGISTERS, 255)>>

ResetTrace ==
    (IF enable_pin # NO_ENABLE_PIN
     THEN <<DigitalWrite(enable_pin, LOW), Delay(10),
            DigitalWrite(enable_pin, HIGH), DelayMicroseconds(500)>>
     ELSE <<>>)
    \o <<I2cWrite(getAddress(Normal), RESET_REGISTERS, 255),
         I2cWrite(i2c_address, DEVICE_CONFIG0, Shl(1, 6))>>

Reset ==
    /\ Called("Reset", <<>>, TRUE, <<>>)
    /\ trace' = ResetTrace
    /\ bus' = i2c_write_byte(i2c_write_byte(bus, getAddress(Normal), RESET_REGISTERS, 255),
                             i2c_address, DEVICE_CONFIG0, Shl(1, 6))
    /\ UNCHANGED drv

\* a public call that is one i2c_write_byte
WriteCall(op, args, addr, reg, val) ==
    /\ Called(op, args, TRUE, <<>>)
    /\ trace' = <<I2cWrite(addr, reg, val)>>
    /\ bus' = i2c_write_byte(bus, addr, reg, val)
    /\ UNCHANGED drv

ResetRegisters(addressType) ==
    WriteCall("ResetRegisters", <<addressType>>,
              getAddress(addressType), RESET_REGISTERS, 255)

(***************************************************************************)
(* Configuration.                                                          *)
(***************************************************************************)
\* Configure masking with 0x1F
ConfigureValue_Mask1F(configuration) == BitAnd(configuration, 31)

ConfigureValue(configuration) == BitAnd(configuration, 63)

Configure(configuration, addressType) ==
    WriteCall("Configure", <<configuration, addressType>>,
              getAddress(addressType), DEVICE_CONFIG1, ConfigureValue(configuration))

\* a setter with (arg & 1) << k for arg & 1 << k
BitFieldUpdate_Precedence(buff, arg, k) ==
    LET masked == Shl(BitAnd(arg, 1), k)
    IN  IF BitAnd(Shr(masked, k), 1) # 0
        THEN BitOr(buff, Shl(1, k))
        ELSE BitAnd(buff, BitNot(Shl(1, k)))

\* a setter with buff = for buff |= and buff &=
BitFieldUpdate_Assign(buff, arg, k) ==
    LET masked == BitAnd(arg, Shl(1, k))
    IN  IF BitAnd(Shr(masked, k), 1) # 0
        THEN Shl(1, k)
        ELSE 0

\* the body shared by the six setters, for bit k:
\*   arg = arg & 1 << k;  if (arg >> k & 1) buff |= 1 << k; else buff &= ~(1 << k);
BitFieldUpdate(buff, arg, k) ==
    LET masked == BitAnd(arg, Shl(1, k))
    IN  IF BitAnd(Shr(masked, k), 1) # 0
        THEN BitOr(buff, Shl(1, k))
        ELSE BitAnd(buff, BitNot(Shl(1, k)))

SetterRead(b)            == i2c_read_byte(b, i2c_address, DEVICE_CONFIG1)
SetterTrace(b, arg, k)   ==
    <<I2cRead(i2c_address, DEVICE_CONFIG1, SetterRead(b)),
      I2cWrite(i2c_address, DEVICE_CONFIG1, BitFieldUpdate(SetterRead(b), arg, k))>>
SetterBus(b, arg, k)     ==
    i2c_write_byte(b, i2c_address, DEVICE_CONFIG1, BitFieldUpdate(SetterRead(b), arg, k))

Setter(op, arg, k) ==
    /\ Called(op, <<arg>>, TRUE, <<>>)
    /\ trace' = SetterTrace(bus, arg, k)
    /\ bus' = SetterBus(bus, arg, k)
    /\ UNCHANGED drv

SetScaling(scaling)         == Setter("SetScaling", scaling, 5)
SetPowerSaving(powerSave)   == Setter("SetPowerSaving", powerSave, 4)
SetAutoIncrement(autoInc)   == Setter("SetAutoIncrement", autoInc, 3)
SetPWMDithering(dithering)  == Setter("SetPWMDithering", dithering, 2)
SetMaxCurrentOption(option) == Setter("SetMaxCurrentOption", option, 1)
SetGlobalLedOff(value)      == Setter("SetGlobalLedOff", value, 0)

SetEnablePin(enablePin) ==
    /\ Called("SetEnablePin", <<enablePin>>, TRUE, <<>>)
    /\ enable_pin' = enablePin
    /\ trace' = <<PinMode(enablePin)>>
    /\ UNCHANGED <<i2c_address, led_configuration, bus>>

SetLEDConfiguration(ledConfiguration) ==
    /\ Called("SetLEDConfiguration", <<ledConfiguration>>, TRUE, <<>>)
    /\ led_configuration' = ledConfiguration
    /\ trace' = <<>>
    /\ UNCHANGED <<i2c_address, enable_pin, bus>>

SetI2CAddress(address) ==
    /\ Called("SetI2CAddress", <<address>>, TRUE, <<>>)
    /\ i2c_address' = address
    /\ trace' = <<>>
    /\ UNCHANGED <<enable_pin, led_configuration, bus>>

(***************************************************************************)
(* Bank control.                                                           *)
(***************************************************************************)
SetBankControl(leds, addressType) ==
    WriteCall("SetBankControl", <<leds, addressType>>,
              getAddress(addressType), LED_CONFIG0, leds)

SetBankBrightness(brightness, addressType) ==
    WriteCall("SetBankBrightness", <<brightness, addressType>>,
              getAddress(addressType), BANK_BRIGHTNESS, brightness)

SetBankColorA(value, addressType) ==
    WriteCall("SetBankColorA", <<value, addressType>>,
              getAddress(addressType), BANK_A_COLOR, value)

SetBankColorB(value, addressType) ==
    WriteCall("SetBankColorB", <<value, addressType>>,
              getAddress(addressType), BANK_B_COLOR, value)

SetBankColorC(value, addressType) ==
    WriteCall("SetBankColorC", <<value, addressType>>,
              getAddress(addressType), BANK_C_COLOR, value)

\* the switch of SetBankColor
BankColorBuff(cfg, r, g, b) ==
    CASE cfg = RGB -> <<r, g, b>>
      [] cfg = GRB -> <<g, r, b>>
      [] cfg = BGR -> <<b, g, r>>
      [] cfg = RBG -> <<r, b, g>>
      [] cfg = GBR -> <<g, b, r>>
      [] cfg = BRG -> <<b, r, g>>

\* a call that forces auto-increment on and then writes one burst
BurstCall(op, args, addr, reg, buff) ==
    /\ Called(op, args, TRUE, <<>>)
    /\ trace' = SetterTrace(bus, AUTO_INC_ON, 3) \o <<I2cMulti(addr, reg, buff)>>
    /\ bus' = i2c_write_multi(SetterBus(bus, AUTO_INC_ON, 3), addr, reg, buff)
    /\ UNCHANGED drv

SetBankColor(r, g, b, addressType) ==
    BurstCall("SetBankColor", <<r, g, b, addressType>>,
              getAddress(addressType), BANK_A_COLOR,
              BankColorBuff(led_configuration, r, g, b))

(***************************************************************************)
(* Output control.                                                         *)
(***************************************************************************)
SetLEDBrightness(led, brighness, addressType) ==
    WriteCall("SetLEDBrightness", <<led, brighness, addressType>>,
              getAddress(addressType), LED0_BRIGHTNESS + led, brighness)

SetOutputColor(output, value, addressType) ==
    WriteCall("SetOutputColor", <<output, value, addressType>>,
              getAddress(addressType), OUT0_COLOR + output, value)

\* the switch of SetLEDColor with the GBR and BRG cases exchanged
LEDColorBuff_Exchanged(cfg, r, g, b) ==
    CASE cfg = RGB -> <<r, g, b>>
      [] cfg = GRB -> <<g, r, b>>
      [] cfg = BGR -> <<b, g, r>>
      [] cfg = RBG -> <<r, b, g>>
      [] cfg = GBR -> <<b, r, g>>
      [] cfg = BRG -> <<g, b, r>>

\* the switch of SetLEDColor
LEDColorBuff(cfg, r, g, b) ==
    CASE cfg = RGB -> <<r, g, b>>
      [] cfg = GRB -> <<g, r, b>>
      [] cfg = BGR -> <<b, g, r>>
      [] cfg = RBG -> <<r, b, g>>
      [] cfg = GBR -> <<g, b, r>>
      [] cfg = BRG -> <<b, r, g>>

\* one register per LED instead of three
LEDColorRegister_NoStride(led) == OUT0_COLOR + led

LEDColorRegister(led) == OUT0_COLOR + (led * 3)

SetLEDColor(led, r, g, b, addressType) ==
    BurstCall("SetLEDColor", <<led, r, g, b, addressType>>,
              getAddress(addressType), LEDColorRegister(led),
              LEDColorBuff(led_configuration, r, g, b))

(***************************************************************************)
(* Low level register access.                                              *)
(***************************************************************************)
WriteRegister(reg, value, addressType) ==
    WriteCall("WriteRegister", <<reg, value, addressType>>,
              getAddress(addressType), reg, value)

\* ReadRegister reading at the broadcast address
ReadRegisterAddress_Broadcast == i2c_address_broadcast

ReadRegisterAddress == i2c_address

ReadRegister(reg) ==
    LET value == i2c_read_byte(bus, ReadRegisterAddress, reg)
    IN  /\ Called("ReadRegister", <<reg>>, TRUE, <<value>>)
        /\ trace' = <<I2cRead(ReadRegisterAddress, reg, value)>>
        /\ UNCHANGED <<drv, bus>>

(***************************************************************************)
(* Two invocations of a bit-field setter running concurrently against the  *)
(* same physical address (two threads, or two controller objects with the  *)
(* same _i2c_address).  Each invocation is its two bus transactions: the   *)
(* i2c_read_byte into buff, then the i2c_write_byte of the updated buff.   *)
(***************************************************************************)
Threads == {1, 2}
Bits    == 0 .. 5

RmwIdle ==
    [pc    |-> [t \in Threads |-> "idle"],
     bit   |-> [t \in Threads |-> 0],
     arg   |-> [t \in Threads |-> 0],
     buff  |-> [t \in Threads |-> 0],
     order |-> <<>>]

Other(t) == CHOOSE u \in Threads : u # t

\* i2c_read_byte(_i2c_address, DEVICE_CONFIG1, &buff) of a setter for bit k
SetterReadStep(t, k, arg) ==
    /\ rmw.pc[t] = "idle"
    /\ rmw.pc[Other(t)] # "idle" => rmw.bit[Other(t)] # k
    /\ rmw' = [pc    |-> [rmw.pc EXCEPT ![t] = "read"],
               bit   |-> [rmw.bit EXCEPT ![t] = k],
               arg   |-> [rmw.arg EXCEPT ![t] = arg],
               buff  |-> [rmw.buff EXCEPT ![t] = SetterRead(bus)],
               order |-> Append(rmw.order, t)]
    /\ trace' = Append(trace, I2cRead(i2c_address, DEVICE_CONFIG1, SetterRead(bus)))
    /\ UNCHANGED <<drv, bus, call, prev, ret, budget>>

\* the update of buff and the i2c_write_byte that ends the setter
SetterWriteStep(t) ==
    /\ rmw.pc[t] = "read"
    /\ LET out == BitFieldUpdate(rmw.buff[t], rmw.arg[t], rmw.bit[t])
       IN  /\ bus' = i2c_write_byte(bus, i2c_address, DEVICE_CONFIG1, out)
           /\ trace' = Append(trace, I2cWrite(i2c_address, DEVICE_CONFIG1, out))
    /\ rmw' = [rmw EXCEPT !.pc[t] = "done", !.order = Append(rmw.order, t)]
    /\ UNCHANGED <<drv, call, prev, ret, budget>>

(***************************************************************************)
(* Specifications.                                                         *)
(***************************************************************************)
EmptyBus == [c \in {} |-> 0]

\* no public call made yet
History ==
    /\ call = NoCall
    /\ prev = NoCall
    /\ ret = <<>>
    /\ rmw = RmwIdle

Idle ==
    /\ History
    /\ trace = <<>>

(***************************************************************************)
(* The four constructors.  No constructor and no member initialiser writes *)
(* _i2c_address: the object starts with the byte its storage held.  The    *)
(* statement LP50XX(); that ends three of them constructs and discards a   *)
(* temporary, and changes nothing of the object.  trace holds the calls    *)
(* the constructor made.                                                   *)
(***************************************************************************)
LP50XX ==
    /\ i2c_address \in Uninitialised
    /\ enable_pin = NO_ENABLE_PIN
    /\ led_configuration = RGB
    /\ trace = <<>>

LP50XX_Configuration(ledConfiguration) ==
    /\ i2c_address \in Uninitialised
    /\ enable_pin = NO_ENABLE_PIN
    /\ led_configuration = ledConfiguration
    /\ trace = <<>>

LP50XX_EnablePin(enablePin) ==
    /\ i2c_address \in Uninitialised
    /\ enable_pin = enablePin
    /\ led_configuration = RGB
    /\ trace = <<PinMode(enablePin)>>

LP50XX_Configuration_EnablePin(ledConfiguration, enablePin) ==
    /\ i2c_address \in Uninitialised
    /\ enable_pin = enablePin
    /\ led_configuration = ledConfiguration
    /\ trace = <<PinMode(enablePin)>>

\* One public call on a driver that any of the four constructors built, in
\* storage holding any byte.
Init ==
    /\ \/ LP50XX
       \/ \E c \in Configurations : LP50XX_Configuration(c)
       \/ \E p \in PinValues : LP50XX_EnablePin(p)
       \/ \E c \in Configurations, p \in PinValues : LP50XX_Configuration_EnablePin(c, p)
    /\ bus = EmptyBus
    /\ budget = 1
    /\ History

Next ==
    \/ CanCall /\ \E a \in AddressValues, ok \in BOOLEAN : Begin(a, ok)
    \/ CanCall /\ Reset
    \/ CanCall /\ \E at \in AddressTypes : ResetRegisters(at)
    \/ CanCall /\ \E x \in Bytes, at \in AddressTypes : Configure(x, at)
    \/ CanCall /\ \E x \in Bytes : SetScaling(x)
    \/ CanCall /\ \E x \in Bytes : SetPowerSaving(x)
    \/ CanCall /\ \E x \in Bytes : SetAutoIncrement(x)
    \/ CanCall /\ \E x \in Bytes : SetPWMDithering(x)
    \/ CanCall /\ \E x \in Bytes : SetMaxCurrentOption(x)
    \/ CanCall /\ \E x \in Bytes : SetGlobalLedOff(x)
    \/ CanCall /\ \E p \in PinValues : SetEnablePin(p)
    \/ CanCall /\ \E c \in Configurations : SetLEDConfiguration(c)
    \/ CanCall /\ \E a \in AddressValues : SetI2CAddress(a)
    \/ CanCall /\ \E x \in Values, at \in AddressTypes : SetBankControl(x, at)
    \/ CanCall /\ \E x \in Values, at \in AddressTypes : SetBankBrightness(x, at)
    \/ CanCall /\ \E x \in Values, at \in AddressTypes : SetBankColorA(x, at)
    \/ CanCall /\ \E x \in Values, at \in AddressTypes : SetBankColorB(x, at)
    \/ CanCall /\ \E x \in Values, at \in AddressTypes : SetBankColorC(x, at)
    \/ CanCall /\ \E c \in Colors, at \in AddressTypes : SetBankColor(c[1], c[2], c[3], at)
    \/ CanCall /\ \E l \in 0 .. MaxLed, x \in Values, at \in AddressTypes : SetLEDBrightness(l, x, at)
    \/ CanCall /\ \E o \in 0 .. MaxOutput, x \in Values, at \in AddressTypes : SetOutputColor(o, x, at)
    \/ CanCall /\ \E l \in 0 .. MaxLed, c \in Colors, at \in AddressTypes :
          SetLEDColor(l, c[1], c[2], c[3], at)
    \/ CanCall /\ \E r \in Registers, x \in Values, at \in AddressTypes : WriteRegister(r, x, at)
    \/ CanCall /\ \E r \in Registers : ReadRegister(r)

Spec == Init /\ [][Next]_vars

\* MaxCalls register accesses and address changes on a driver built by
\* LP50XX() in storage holding any byte.
InitCalls ==
    /\ LP50XX
    /\ bus = EmptyBus
    /\ budget = MaxCalls
    /\ History

NextCalls ==
    \/ CanCall /\ \E a \in AddressValues : SetI2CAddress(a)
    \/ CanCall /\ \E r \in Registers, x \in Values \cup Bytes, at \in AddressTypes :
          WriteRegister(r, x, at)
    \/ CanCall /\ \E r \in Registers : ReadRegister(r)

SpecCalls == InitCalls /\ [][NextCalls]_vars

\* One configuration call on a device whose DEVICE_CONFIG1 holds any byte,
\* with any byte as the argument.
InitBits ==
    /\ i2c_address = DEFAULT_ADDRESS
    /\ enable_pin = NO_ENABLE_PIN
    /\ led_configuration = RGB
    /\ \E v \in ByteRange : bus = i2c_write_byte(EmptyBus, DEFAULT_ADDRESS, DEVICE_CONFIG1, v)
    /\ budget = 1
    /\ Idle

NextBits ==
    \/ CanCall /\ \E x \in ByteRange : SetScaling(x)
    \/ CanCall /\ \E x \in ByteRange : SetPowerSaving(x)
    \/ CanCall /\ \E x \in ByteRange : SetAutoIncrement(x)
    \/ CanCall /\ \E x \in ByteRange : SetPWMDithering(x)
    \/ CanCall /\ \E x \in ByteRange : SetMaxCurrentOption(x)
    \/ CanCall /\ \E x \in ByteRange : SetGlobalLedOff(x)
    \/ CanCall /\ \E x \in ByteRange, at \in AddressTypes : Configure(x, at)

SpecBits == InitBits /\ [][NextBits]_vars

\* One color call of a driver constructed with any LED configuration, with
\* or without an enable pin, in storage holding any byte, on a device whose
\* DEVICE_CONFIG1 at that address holds one of ConfigValues.
InitColor ==
    /\ \/ \E c \in Configurations : LP50XX_Configuration(c)
       \/ \E c \in Configurations, p \in PinValues : LP50XX_Configuration_EnablePin(c, p)
    /\ \E v \in ConfigValues : bus = i2c_write_byte(EmptyBus, i2c_address, DEVICE_CONFIG1, v)
    /\ budget = 1
    /\ History

NextColor ==
    \/ CanCall /\ \E c \in ColorTriples, at \in AddressTypes :
          SetBankColor(c[1], c[2], c[3], at)
    \/ CanCall /\ \E l \in 0 .. MaxLed, c \in ColorTriples, at \in AddressTypes :
          SetLEDColor(l, c[1], c[2], c[3], at)

SpecColor == InitColor /\ [][NextColor]_vars

\* Two concurrent setters on one device.
InitRace ==
    /\ i2c_address = DEFAULT_ADDRESS
    /\ enable_pin = NO_ENABLE_PIN
    /\ led_configuration = RGB
    /\ \E v \in ConfigValues : bus = i2c_write_byte(EmptyBus, DEFAULT_ADDRESS, DEVICE_CONFIG1, v)
    /\ budget = 0
    /\ Idle

NextRace ==
    \/ \E t \in Threads, k \in Bits, x \in {0, 63} : SetterReadStep(t, k, x)
    \/ \E t \in Threads : SetterWriteStep(t)

SpecRace == InitRace /\ [][NextRace]_vars

(***************************************************************************)
(* Properties.  The expected values below are written from the register    *)
(* map and the documented behaviour, by arithmetic on the bits, and not    *)
(* with the operators the operations are modelled with.                    *)
(***************************************************************************)
Bit(x, j) == (x \div Pow2(j)) % 2

\* the bit each setter owns
SetterBit ==
    [op \in {"SetScaling", "SetPowerSaving", "SetAutoIncrement",
             "SetPWMDithering", "SetMaxCurrentOption", "SetGlobalLedOff"} |->
        CASE op = "SetScaling"          -> 5
          [] op = "SetPowerSaving"      -> 4
          [] op = "SetAutoIncrement"    -> 3
          [] op = "SetPWMDithering"     -> 2
          [] op = "SetMaxCurrentOption" -> 1
          [] op = "SetGlobalLedOff"     -> 0]

SetterOps == DOMAIN SetterBit
ColorOps  == {"SetBankColor", "SetLEDColor"}

\* the operations that take an addressType; it is their last argument
AddressedOps ==
    {"ResetRegisters", "Configure", "SetBankControl", "SetBankBrightness",
     "SetBankColorA", "SetBankColorB", "SetBankColorC", "SetLEDBrightness",
     "SetOutputColor", "WriteRegister", "SetBankColor", "SetLEDColor"}

Selector(c) == c.args[Len(c.args)]
LastEvent   == trace[Len(trace)]

\* trace[i] is a read (write) of DEVICE_CONFIG1 at the primary address
IsConfigRead(i) ==
    /\ trace[i].ev = "i2c_read_byte"
    /\ trace[i].addr = i2c_address
    /\ trace[i].reg = 1
    /\ trace[i].data \in Seq(ByteRange) /\ Len(trace[i].data) = 1

IsConfigWrite(i) ==
    /\ trace[i].ev = "i2c_write_byte"
    /\ trace[i].addr = i2c_address
    /\ trace[i].reg = 1
    /\ trace[i].data \in Seq(ByteRange) /\ Len(trace[i].data) = 1

\* w is v with bit k replaced by bit k of x
ReplacesBit(w, v, k, x) ==
    \A j \in 0 .. 7 : Bit(w, j) = IF j = k THEN Bit(x, k) ELSE Bit(v, j)

\* C1: a bit-field setter called with x reads DEVICE_CONFIG1 once at the primary
\* address, then writes it once, and the byte written is the byte read with
\* the setter's own bit replaced by that bit of x and the other seven bits kept.
C1_SetterReplacesOwnBit ==
    call.op \in SetterOps =>
        /\ Len(trace) = 2
        /\ IsConfigRead(1)
        /\ IsConfigWrite(2)
        /\ ReplacesBit(trace[2].data[1], trace[1].data[1], SetterBit[call.op], call.args[1])
        /\ i2c_read_byte(bus, i2c_address, 1) = trace[2].data[1]

\* C1 witness: the register holds 0x28 and SetAutoIncrement(0x00) writes 0x20.
C1_Witness ==
    /\ call.op = "SetAutoIncrement"
    /\ call.args = <<0>>
    /\ Len(trace) = 2
    /\ trace[1].data = <<40>>
    /\ trace[2].data = <<32>>

\* C2: SetBankColor and SetLEDColor first read-modify-write DEVICE_CONFIG1 so
\* that bit 3 is on and the other bits are kept, and then make exactly one
\* 3-byte burst write, at register 0x04 for the bank and 0x0F + led*3 for a
\* LED; the call makes no other bus write.
C2_AutoIncrementThenOneBurst ==
    call.op \in ColorOps =>
        /\ Len(trace) = 3
        /\ IsConfigRead(1)
        /\ IsConfigWrite(2)
        /\ ReplacesBit(trace[2].data[1], trace[1].data[1], 3, 8)
        /\ trace[3].ev = "i2c_write_multi"
        /\ Len(trace[3].data) = 3
        /\ trace[3].reg = IF call.op = "SetBankColor" THEN 4 ELSE 15 + 3 * call.args[1]

\* C2 witness: SetLEDColor on LED 1 with DEVICE_CONFIG1 = 0x37 writes 0x3F and
\* then bursts at 0x12.
C2_Witness ==
    /\ call.op = "SetLEDColor"
    /\ call.args[1] = 1
    /\ Len(trace) = 3
    /\ trace[1].data = <<55>>
    /\ trace[2].data = <<63>>
    /\ trace[3].reg = 18

\* the documented channel orders: position i of the burst carries component
\* DocumentedOrder[cfg][i] of (r, g, b)
DocumentedOrder ==
    [cfg \in Configurations |->
        CASE cfg = RGB -> <<1, 2, 3>>
          [] cfg = GRB -> <<2, 1, 3>>
          [] cfg = BGR -> <<3, 2, 1>>
          [] cfg = RBG -> <<1, 3, 2>>
          [] cfg = GBR -> <<2, 3, 1>>
          [] cfg = BRG -> <<3, 1, 2>>]

ColorArgs(c) ==
    LET n == Len(c.args) IN <<c.args[n - 3], c.args[n - 2], c.args[n - 1]>>

\* C3: the three bytes of the burst of SetBankColor and of SetLEDColor are the
\* documented permutation of (r, g, b) for the one channel order in force.
C3_BurstIsDocumentedPermutation ==
    call.op \in ColorOps =>
        LET rgb == ColorArgs(call)
            ord == DocumentedOrder[led_configuration]
        IN  LastEvent.data = <<rgb[ord[1]], rgb[ord[2]], rgb[ord[3]]>>

\* C3 witness: with GBR, SetLEDColor(led, 0x10, 0x20, 0x30) bursts (0x20, 0x30, 0x10).
C3_Witness ==
    /\ call.op = "SetLEDColor"
    /\ led_configuration = GBR
    /\ ColorArgs(call) = <<16, 32, 48>>
    /\ LastEvent.data = <<32, 48, 16>>

\* what Begin(address) does with the enable pin being pin
BeginSequence(address, pin) ==
    IF pin # 255
    THEN <<I2cInit, DigitalWrite(pin, 1), DelayMicroseconds(500), I2cWrite(address, 0, 64)>>
    ELSE <<I2cInit, DelayMicroseconds(500), I2cWrite(address, 0, 64)>>

\* C4: Begin(address) initialises the bus, stores address as the primary
\* address, drives the enable pin high iff one is configured, waits 500 us and
\* then writes 0x40 to register 0x00 once, at the address just stored.
C4_BeginSequence ==
    call.op = "Begin" =>
        /\ i2c_address = call.args[1]
        /\ trace = BeginSequence(call.args[1], enable_pin)

\* C4 witness: Begin as the first call of a driver constructed with enable
\* pin 5.
C4_Witness ==
    /\ prev = NoCall
    /\ call.op = "Begin"
    /\ enable_pin = 5
    /\ Len(trace) = 4
    /\ trace[2] = DigitalWrite(5, 1)

\* C5: Reset with an enable pin does pin low, 10 ms, pin high, 500 us, 0xFF to
\* register 0x27, 0x40 to register 0x00; with no enable pin only the two
\* writes; both writes go to the primary address.
C5_ResetSequence ==
    call.op = "Reset" =>
        trace = (IF enable_pin # 255
                 THEN <<DigitalWrite(enable_pin, 0), Delay(10),
                        DigitalWrite(enable_pin, 1), DelayMicroseconds(500)>>
                 ELSE <<>>)
                \o <<I2cWrite(i2c_address, 39, 255), I2cWrite(i2c_address, 0, 64)>>

\* C5 witness: Reset as the first call of a driver constructed with enable
\* pin 5 in storage that held 0xAA: no call has set the primary address.
C5_Witness ==
    /\ prev = NoCall
    /\ call.op = "Reset"
    /\ enable_pin = 5
    /\ i2c_address = 170
    /\ Len(trace) = 6
    /\ trace[5] = I2cWrite(170, 39, 255)

\* C6: every operation that takes an addressType sends its write (for the
\* color operations, its burst) to the primary address for Normal, to 0x0C for
\* Broadcast and to the primary address for any other selector value, from
\* every value the members of a constructed driver can hold.
C6_SelectorResolvesPerCall ==
    call.op \in AddressedOps =>
        /\ LastEvent.ev \in {"i2c_write_byte", "i2c_write_multi"}
        /\ LastEvent.addr = (CASE Selector(call) = 0 -> i2c_address
                               [] Selector(call) = 1 -> 12
                               [] OTHER -> i2c_address)

\* C6 witness: the burst of a color call with an unrecognised selector goes
\* to a primary address that is not the broadcast address.
C6_Witness ==
    /\ call.op = "SetLEDColor"
    /\ Selector(call) = 2
    /\ i2c_address = 170
    /\ LastEvent.ev = "i2c_write_multi"
    /\ LastEvent.addr = 170

\* a WriteRegister immediately followed by a ReadRegister of the same register
WriteThenRead ==
    /\ prev.op = "WriteRegister"
    /\ call.op = "ReadRegister"
    /\ prev.args[1] = call.args[1]

\* C7 as claimed: WriteRegister(reg, value, addressType) followed by
\* ReadRegister(reg) returns value, for every addressType.
C7_RoundTripEverySelector ==
    WriteThenRead => ret = <<prev.args[2]>>

\* C7 amended: WriteRegister(reg, value, addressType) followed by
\* ReadRegister(reg) returns value whenever addressType resolves to the primary
\* address (any selector but Broadcast, or a primary address of 0x0C).
C7_RoundTripAtPrimary ==
    (WriteThenRead /\ (prev.args[3] # 1 \/ i2c_address = 12)) => ret = <<prev.args[2]>>

\* C7 witness: a Normal write read back at a primary address other than 0x0C.
C7_Witness ==
    /\ WriteThenRead
    /\ prev.args[3] = 0
    /\ i2c_address # 12
    /\ ret = <<170>>

\* C8: Configure(flags, addressType) makes no read and one write, of
\* DEVICE_CONFIG1 at the address the selector resolves to, and the byte written
\* is bits 0-5 of flags and nothing of what the register held.
C8_ConfigureOverwrites ==
    call.op = "Configure" =>
        /\ Len(trace) = 1
        /\ trace[1].ev = "i2c_write_byte"
        /\ trace[1].addr = (IF call.args[2] = 1 THEN 12 ELSE i2c_address)
        /\ trace[1].reg = 1
        /\ trace[1].data = <<call.args[1] % 64>>
        /\ i2c_read_byte(bus, trace[1].addr, 1) = call.args[1] % 64

\* C8 witness: Configure(0xFF, Normal) writes 0x3F.
C8_Witness ==
    /\ call.op = "Configure"
    /\ call.args = <<255, 0>>
    /\ trace[1].data = <<63>>

\* C9: Begin returns true whether the bus write succeeded or failed, and its
\* sequence is the same in both cases.
C9_BeginReturnsTrue ==
    call.op = "Begin" =>
        /\ ret = <<1>>
        /\ i2c_address = call.args[1]
        /\ trace = BeginSequence(call.args[1], enable_pin)

\* C9 witness: a Begin whose write failed (register 0x00 was not written)
\* and that returned true.
C9_Witness ==
    /\ call.op = "Begin"
    /\ ~call.busOk
    /\ <<i2c_address, 0>> \notin DOMAIN bus
    /\ ret = <<1>>

RaceDone   == \A t \in Threads : rmw.pc[t] = "done"
\* one setter ran to its end before the other started
RaceSerial == rmw.order \in {<<1, 1, 2, 2>>, <<2, 2, 1, 1>>}
\* the final register carries the update of thread t
HasUpdate(t) ==
    Bit(i2c_read_byte(bus, i2c_address, 1), rmw.bit[t]) = Bit(rmw.arg[t], rmw.bit[t])

\* C10: two setters for different bits of DEVICE_CONFIG1 at one address that
\* do not interleave leave both updates in the register; an interleaving
\* exists that loses one of them (the witness).
C10_SerialSettersKeepBothUpdates ==
    (RaceDone /\ RaceSerial) => (HasUpdate(1) /\ HasUpdate(2))

\* C10 witness: both setters finished, interleaved, and one update is lost.
C10_LostUpdate ==
    /\ RaceDone
    /\ ~RaceSerial
    /\ ~(HasUpdate(1) /\ HasUpdate(2))

\* C11: in SetBankColor and SetLEDColor, for Normal and for Broadcast, the
\* read-modify-write that forces auto-increment on goes to the bus address the
\* 3-byte burst goes to, so that the device receiving the burst has bit 3 of
\* DEVICE_CONFIG1 set.
C11_AutoIncrementAtBurstAddress ==
    (call.op \in ColorOps /\ Selector(call) \in {0, 1}) =>
        /\ Len(trace) = 3
        /\ trace[1].addr = trace[3].addr
        /\ trace[2].addr = trace[3].addr
        /\ Bit(i2c_read_byte(bus, trace[3].addr, 1), 3) = 1

=============================================================================
